---- MODULE Spec2Model ----
(***************************************************************************)
(* Model of the e-Diary backend's schema bootstrap (app/database.py) and   *)
(* of its admin credential resolution (app/deps.py).                       *)
(*                                                                         *)
(* The store is a relational database: a catalog (tables and, per table,   *)
(* its columns), the rows of the two tables that carry generated tokens    *)
(* (project.admin_key, questionnaire.assignment_key) and the unique index  *)
(* on questionnaire.assignment_key.  A column a table does not have reads  *)
(* as None in every row of that table, which is also what ALTER TABLE ADD  *)
(* COLUMN leaves in the rows that exist.                                   *)
(***************************************************************************)
EXTENDS Integers, Sequences, FiniteSets, TLC

VARIABLES
    backend,      \* the storage backend DATABASE_URL names
    adminApiKey,  \* ADMIN_API_KEY, the configured super-admin secret
    fileExists,   \* sqlite: the database file exists
    db,           \* the committed content of the store
    ready,        \* the last get_or_create_db of this process returned
    boot,         \* what the last get_or_create_db run did
    auth,         \* what admin_auth answered to the last request
    reply,        \* what the route handler answered to the last request
    proc          \* the position of each process instance that is starting up

vars == <<backend, adminApiKey, fileExists, db, ready, boot, auth, reply, proc>>

-----------------------------------------------------------------------------
(* Bounds of the model.                                                    *)

\* rows of project and questionnaire, together, in an initial store
MaxRows == 2
\* declared columns an initial older store may lack
MaxMissing == 1
\* rows of project the create_project requests may reach
MaxProjects == 3
\* rows of the tenant-scoped tables, together, the requests may reach
MaxObjects == 3
\* rows of one tenant-scoped table, but questionnaire, the requests may reach
MaxPerTable == 1

-----------------------------------------------------------------------------
(* Values.                                                                 *)

\* Python None / SQL NULL
None == "<None>"

\* None / NULL in an integer column: the ids of rows are positive
NoneId == 0

\* None for an Optional[list]; a list that is given is wrapped
NoList == <<>>
ListOf(items) == <<items>>

\* Python truthiness of an Optional[str]: None and "" are falsy
Truthy(v) == v # None /\ v # ""

\* the non-empty strings a token column or a credential may hold
Keys == {"k1", "k2"}

\* what secrets.token_urlsafe may return: any non-empty string
Tokens == Keys

\* the values a token column holds in an initial store: NULL, the empty
\* string or a key
KeyValues == {None, "", "k1"}

Backends == {"sqlite", "postgresql"}

\* pysqlite runs DDL outside a transaction: each statement is committed as
\* it is executed; postgresql rolls DDL back with the transaction
TransactionalDDL(be) == be # "sqlite"

-----------------------------------------------------------------------------
(* The target schema: SQLModel.metadata.                                   *)

\* the tables of the metadata, in the order create_all creates them
\* (a table after the tables its foreign keys name)
MetadataTables ==
    <<"project", "questionnaire", "user", "question",
      "assignment", "diaryentry", "task", "choice">>

TargetTables == {MetadataTables[i] : i \in 1..Len(MetadataTables)}

\* a table of the store that is no table of the metadata
OtherTable == "other"

AllTables == TargetTables \cup {OtherTable}

\* the columns the model classes declare
ModelColumns(t) ==
    CASE t = "project" ->
           {"id", "name", "description", "admin_key", "created_at"}
      [] t = "choice" ->
           {"id", "question_id", "text", "value", "order"}
      [] t = "question" ->
           {"id", "questionnaire_id", "text", "type", "required", "order"}
      [] t = "assignment" ->
           {"id", "user_id", "questionnaire_id", "project_id", "due_at", "active"}
      [] t = "diaryentry" ->
           {"id", "user_id", "questionnaire_id", "project_id", "submitted_at",
            "answers"}
      [] t = "user" ->
           {"id", "email", "name", "participant_code", "project_id", "role",
            "is_active", "created_at"}
      [] t = "questionnaire" ->
           {"id", "name", "description", "version", "is_active", "created_at",
            "project_id", "assignment_key"}
      [] t = "task" ->
           {"id", "project_id", "user_id", "questionnaire_id", "title",
            "description", "task_type", "due_at", "reminder_minutes_before",
            "is_completed", "completed_at", "created_at"}
      [] OTHER -> {"id"}

\* the ensure_column calls of _apply_schema_upgrades, in order
UpgradeList ==
    << <<"project", "admin_key">>,
       <<"user", "project_id">>,
       <<"questionnaire", "project_id">>,
       <<"questionnaire", "assignment_key">>,
       <<"assignment", "project_id">>,
       <<"diaryentry", "project_id">>,
       <<"task", "project_id">>,
       <<"task", "user_id">>,
       <<"task", "questionnaire_id">>,
       <<"task", "task_type">>,
       <<"task", "due_at">>,
       <<"task", "reminder_minutes_before">>,
       <<"task", "is_completed">>,
       <<"task", "completed_at">>,
       <<"task", "title">>,
       <<"task", "description">> >>

-----------------------------------------------------------------------------
(* The store.                                                              *)

\* a store with no tables
EmptyDb ==
    [tables |-> {},
     cols |-> [t \in AllTables |-> {}],
     project |-> <<>>,
     questionnaire |-> <<>>,
     user |-> <<>>,
     question |-> <<>>,
     choice |-> <<>>,
     assignment |-> <<>>,
     diaryentry |-> <<>>,
     uniq |-> FALSE]

\* inspector.get_table_names()
TableNames(d) == d.tables

\* {col["name"] for col in inspector.get_columns(table)}
GetColumns(d, t) == d.cols[t]

\* the catalog: the tables and the columns of each
Catalog(d) == [t \in d.tables |-> d.cols[t]]

RECURSIVE SortedIds(_)
\* the elements of a set of ids, ascending: the order SELECT returns rows in
SortedIds(S) ==
    IF S = {} THEN <<>>
    ELSE LET m == CHOOSE x \in S : \A y \in S : x <= y
         IN <<m>> \o SortedIds(S \ {m})

-----------------------------------------------------------------------------
(* The statements a bootstrap run sends to the store.                      *)

CreateStmt(t) == [kind |-> "create", tbl |-> t, col |-> None, id |-> 0, tok |-> None]
AlterStmt(t, c) == [kind |-> "alter", tbl |-> t, col |-> c, id |-> 0, tok |-> None]
UpdateStmt(t, i, k) == [kind |-> "update", tbl |-> t, col |-> None, id |-> i, tok |-> k]

IsDDL(s) == s.kind \in {"create", "alter"}

\* CREATE TABLE t, with the columns and indexes the model class declares
\* (Questionnaire.assignment_key is declared unique)
CreateTable(d, t) ==
    [d EXCEPT !.tables = @ \cup {t},
              !.cols[t] = ModelColumns(t),
              !.uniq = IF t = "questionnaire" THEN TRUE ELSE @]

\* mutant of AddColumn: the table rebuilt with the new column alone next to
\* its primary key
AddColumnRebuild(d, t, c) == [d EXCEPT !.cols[t] = {"id", c}]

\* ALTER TABLE t ADD COLUMN c: the rows that exist hold NULL in it
AddColumn(d, t, c) == [d EXCEPT !.cols[t] = @ \cup {c}]

\* mutant of UpdateToken: the UPDATE without its WHERE clause
UpdateTokenAllRows(d, t, i, k) ==
    IF t = "project"
    THEN [d EXCEPT !.project = [r \in DOMAIN @ |-> [@[r] EXCEPT !.admin_key = k]]]
    ELSE [d EXCEPT !.questionnaire =
             [r \in DOMAIN @ |-> [@[r] EXCEPT !.assignment_key = k]]]

\* UPDATE project SET admin_key = ? WHERE id = ?
\* UPDATE questionnaire SET assignment_key = ? WHERE id = ?
UpdateToken(d, t, i, k) ==
    IF t = "project"
    THEN [d EXCEPT !.project[i].admin_key = k]
    ELSE [d EXCEPT !.questionnaire[i].assignment_key = k]

\* the effect of one statement that succeeds
Exec(d, s) ==
    CASE s.kind = "create" -> CreateTable(d, s.tbl)
      [] s.kind = "alter" -> AddColumn(d, s.tbl, s.col)
      [] OTHER -> UpdateToken(d, s.tbl, s.id, s.tok)

RECURSIVE ExecN(_, _, _)
\* the effect of the first k statements of ss
ExecN(d, ss, k) == IF k = 0 THEN d ELSE Exec(ExecN(d, ss, k - 1), ss[k])

\* the statement the store itself refuses: a table or a column that already
\* exists, a second row with the same assignment_key under the unique index
Refused(d, s) ==
    \/ s.kind = "create" /\ s.tbl \in d.tables
    \/ s.kind = "alter" /\ s.col \in d.cols[s.tbl]
    \/ /\ s.kind = "update"
       /\ s.tbl = "questionnaire"
       /\ d.uniq
       /\ \E r \in DOMAIN d.questionnaire :
             r # s.id /\ d.questionnaire[r].assignment_key = s.tok

\* the index of the first statement of ss the store refuses, 0 when none
FirstRefused(d, ss) ==
    LET bad == {m \in 1..Len(ss) : Refused(ExecN(d, ss, m - 1), ss[m])}
    IN IF bad = {} THEN 0 ELSE CHOOSE m \in bad : \A n \in bad : m <= n

\* the number of DDL statements of ss (they come before the updates)
NumDDL(ss) == Cardinality({m \in 1..Len(ss) : IsDDL(ss[m])})

Min(a, b) == IF a <= b THEN a ELSE b

\* the index at which a transaction stops: the statement made to fail (f, 0
\* when none) or the first one the store refuses, whichever comes first
StopsAt(d, ss, f) ==
    LET r == FirstRefused(d, ss)
    IN IF f = 0 THEN r ELSE IF r = 0 THEN f ELSE Min(f, r)

\* what a transaction of statements ss leaves committed when it stops at
\* statement f (0: it commits).  "with engine.begin()" rolls back on an
\* exception; DDL the backend ran outside the transaction stays
Transaction(d, be, ss, f) ==
    IF f = 0 THEN ExecN(d, ss, Len(ss))
    ELSE IF TransactionalDDL(be) THEN d
    ELSE ExecN(d, ss, Min(f - 1, NumDDL(ss)))

-----------------------------------------------------------------------------
(* get_or_create_db and _apply_schema_upgrades.                            *)

\* mutant of MissingTables: create_all without checkfirst
MissingTablesNoCheck(d) == MetadataTables

\* metadata.create_all(engine): checkfirst keeps the tables that are missing
MissingTables(d) == SelectSeq(MetadataTables, LAMBDA t : t \notin TableNames(d))

\* the statements of create_all
CreateAll(d) ==
    LET ts == MissingTables(d) IN [k \in 1..Len(ts) |-> CreateStmt(ts[k])]

\* the guard of ensure_column: the ALTER is sent when the table is in
\* table_names and the column is not in the cached column set
NeedsColumn(table_names, cols, t, c) == t \in table_names /\ c \notin cols

RECURSIVE EnsureColumns(_, _, _, _)
\* the ensure_column calls from the i-th on: the ALTER statements they send.
\* cache is column_cache, filled from the inspector on first use and
\* extended by cols.add(column)
EnsureColumns(i, table_names, cache, d) ==
    IF i > Len(UpgradeList) THEN <<>>
    ELSE LET t == UpgradeList[i][1]
             c == UpgradeList[i][2]
             cols == IF t \in DOMAIN cache THEN cache[t] ELSE GetColumns(d, t)
         IN IF NeedsColumn(table_names, cols, t, c)
            THEN <<AlterStmt(t, c)>> \o
                 EnsureColumns(i + 1, table_names,
                               [x \in DOMAIN cache \cup {t} |->
                                   IF x = t THEN cols \cup {c} ELSE cache[x]], d)
            ELSE IF t \in table_names
                 THEN EnsureColumns(i + 1, table_names,
                               [x \in DOMAIN cache \cup {t} |->
                                   IF x = t THEN cols ELSE cache[x]], d)
                 ELSE EnsureColumns(i + 1, table_names, cache, d)

\* mutant of NeedsBackfill: the backfill without "if key: continue"
NeedsBackfillAlways(key) == TRUE

\* mutant of NeedsBackfill: "if key is not None: continue"
NeedsBackfillNull(key) == key = None

\* "if key: continue": the rows the backfill writes
NeedsBackfill(key) == ~Truthy(key)

\* the backfill's UPDATE statements: project rows, then questionnaire rows
Backfill(d, tokP, tokQ) ==
    LET ps == SortedIds({i \in DOMAIN d.project :
                            NeedsBackfill(d.project[i].admin_key)})
        qs == SortedIds({i \in DOMAIN d.questionnaire :
                            NeedsBackfill(d.questionnaire[i].assignment_key)})
    IN [k \in 1..Len(ps) |-> UpdateStmt("project", ps[k], tokP[ps[k]])] \o
       [k \in 1..Len(qs) |-> UpdateStmt("questionnaire", qs[k], tokQ[qs[k]])]

\* the statements of _apply_schema_upgrades on store d
ApplySchemaUpgrades(d, tokP, tokQ) ==
    LET first == IF "project" \notin TableNames(d)
                 THEN <<CreateStmt("project")>> ELSE <<>>
        d1 == ExecN(d, first, Len(first))
        alters == EnsureColumns(1, TableNames(d1), <<>>, d1)
        d2 == ExecN(d1, alters, Len(alters))
    IN IF "project" \notin TableNames(d1)
       THEN first \o alters
       ELSE first \o alters \o Backfill(d2, tokP, tokQ)

\* mutant of WasCreated: True only on the path of the missing sqlite file
WasCreatedFileOnly(fresh, has_tables) == fresh

\* the value get_or_create_db returns: True on the path of the missing
\* sqlite file, else whether the inspector found no table
WasCreated(fresh, has_tables) == IF fresh THEN TRUE ELSE ~has_tables

\* one run of get_or_create_db on store d.  fail is the statement of the run
\* made to fail by the storage (0: none).  The result: the store afterwards,
\* whether the call returned, the value it returned, the statements that
\* were executed and whether each transaction was entered
GetOrCreateDb(d, be, exists, fail, tokP, tokQ) ==
    LET fresh == be = "sqlite" /\ ~exists
        has_tables == TableNames(d) # {}
        created == WasCreated(fresh, has_tables)
        s1 == CreateAll(d)
        f1 == StopsAt(d, s1, IF fail \in 1..Len(s1) THEN fail ELSE 0)
        d1 == Transaction(d, be, s1, f1)
        s2 == ApplySchemaUpgrades(d1, tokP, tokQ)
        f2 == StopsAt(d1, s2, IF fail > Len(s1) THEN fail - Len(s1) ELSE 0)
        d2 == Transaction(d1, be, s2, f2)
    IN IF f1 # 0
       THEN [db |-> d1, ok |-> FALSE, created |-> None,
             done |-> SubSeq(s1, 1, f1 - 1), raised |-> <<s1[f1]>>]
       ELSE IF f2 # 0
       THEN [db |-> d2, ok |-> FALSE, created |-> None,
             done |-> s1 \o SubSeq(s2, 1, f2 - 1), raised |-> <<s2[f2]>>]
       ELSE [db |-> d2, ok |-> TRUE, created |-> created,
             done |-> s1 \o s2, raised |-> <<>>]

\* the number of statements a run sends when none fails
RunLength(d, tokP, tokQ) ==
    LET s1 == CreateAll(d)
        d1 == ExecN(d, s1, Len(s1))
    IN Len(s1) + Len(ApplySchemaUpgrades(d1, tokP, tokQ))

-----------------------------------------------------------------------------
(* Credential resolution: admin_auth.                                      *)

\* the methods the routes that depend on admin_auth are registered for
RouteMethods == {"GET", "POST", "PUT", "DELETE"}

\* the super-admin secrets a deployment may configure
Secrets == {"", "S", "k1"}

\* the X-Admin-Key header of a request: absent, empty or a string
Credentials == {None, "", "S"} \cup Keys

AdminContext(api_key, is_super_admin, project_ids) ==
    [api_key |-> api_key, is_super_admin |-> is_super_admin,
     project_ids |-> project_ids]

\* no AdminContext: the call raised
NoContext == AdminContext(None, FALSE, {})

\* select(Project.id)
AllProjectIds(d) == DOMAIN d.project

\* mutant of ProjectIdsWithKey: the SELECT without the comparison with the
\* credential, every project that holds a key
ProjectIdsAnyKey(d, key) == {i \in DOMAIN d.project : Truthy(d.project[i].admin_key)}

\* select(Project.id).where(Project.admin_key == x_admin_key)
ProjectIdsWithKey(d, key) == {i \in DOMAIN d.project : d.project[i].admin_key = key}

\* mutant of NoCredential: "if x_admin_key is None"
NoCredentialAbsent(x_admin_key) == x_admin_key = None

\* "if not x_admin_key": the credential is absent or empty
NoCredential(x_admin_key) == ~Truthy(x_admin_key)

\* mutant of IsSuperAdminKey: "or" in the place of "and"
IsSuperAdminKeyAny(secret, x_admin_key) == Truthy(secret) \/ x_admin_key = secret

\* "if ADMIN_API_KEY and x_admin_key == ADMIN_API_KEY"
IsSuperAdminKey(secret, x_admin_key) == Truthy(secret) /\ x_admin_key = secret

\* mutant of AdminAuth: the answer to the last request is kept and served
\* again to a request that carries the same credential
AdminAuthCached(method, x_admin_key, d, secret) ==
    IF auth.resp.status # 0 /\ auth.cred = x_admin_key
    THEN auth.resp
    ELSE IF method = "OPTIONS"
    THEN [status |-> 200,
          ctx |-> AdminContext(IF Truthy(x_admin_key) THEN x_admin_key ELSE "",
                               FALSE, {})]
    ELSE IF NoCredential(x_admin_key)
    THEN [status |-> 401, ctx |-> NoContext]
    ELSE IF IsSuperAdminKey(secret, x_admin_key)
    THEN [status |-> 200, ctx |-> AdminContext(x_admin_key, TRUE, AllProjectIds(d))]
    ELSE IF ProjectIdsWithKey(d, x_admin_key) = {}
    THEN [status |-> 401, ctx |-> NoContext]
    ELSE [status |-> 200,
          ctx |-> AdminContext(x_admin_key, FALSE, ProjectIdsWithKey(d, x_admin_key))]

\* admin_auth: the status of the answer (401: HTTPException) and the
\* AdminContext returned.  project_ids is the result set of a SELECT with no
\* ORDER BY, kept as a set
AdminAuth(method, x_admin_key, d, secret) ==
    IF method = "OPTIONS"
    THEN [status |-> 200,
          ctx |-> AdminContext(IF Truthy(x_admin_key) THEN x_admin_key ELSE "",
                               FALSE, {})]
    ELSE IF NoCredential(x_admin_key)
    THEN [status |-> 401, ctx |-> NoContext]
    ELSE IF IsSuperAdminKey(secret, x_admin_key)
    THEN [status |-> 200, ctx |-> AdminContext(x_admin_key, TRUE, AllProjectIds(d))]
    ELSE IF ProjectIdsWithKey(d, x_admin_key) = {}
    THEN [status |-> 401, ctx |-> NoContext]
    ELSE [status |-> 200,
          ctx |-> AdminContext(x_admin_key, FALSE, ProjectIdsWithKey(d, x_admin_key))]

-----------------------------------------------------------------------------
(* create_project.                                                         *)

\* str.strip() on the strings of the model
Strip(s) ==
    CASE s = " " -> ""
      [] s = " k1 " -> "k1"
      [] s = " a " -> "a"
      [] OTHER -> s

\* the names a ProjectCreate may carry
ProjectNames == {" ", "a", " a ", "b"}

\* the admin_key a ProjectCreate may carry: absent, empty, blank, a key, a
\* padded key
SuppliedKeys == {None, "", " ", "k1", " k1 ", "k2"}

\* the id the store gives a new row
NextId(ids) == IF ids = {} THEN 1 ELSE 1 + CHOOSE m \in ids : \A n \in ids : n <= m

\* the path and body values of a request that the answer is read against:
\* none
NoArgs == [qid |-> NoneId, assignment_key |-> None]

NoReply ==
    [op |-> None, status |-> 0, project |-> <<>>, returned |-> {},
     checks |-> <<>>, drawn |-> {}, args |-> NoArgs]

\* mutant of CreateProject: the super-admin rule replaced by the scope check
\* "the context holds a project"
CreateProjectAnyScope(d, admin_ctx, data, generated) ==
    LET name == Strip(data.name)
        admin_key == Strip(IF Truthy(data.admin_key) THEN data.admin_key
                           ELSE generated)
        id == NextId(DOMAIN d.project)
        row == [name |-> name, admin_key |-> admin_key]
    IN IF ~admin_ctx.is_super_admin /\ admin_ctx.project_ids = {}
       THEN [status |-> 403, db |-> d, project |-> <<>>]
       ELSE IF ~Truthy(name)
       THEN [status |-> 400, db |-> d, project |-> <<>>]
       ELSE IF \E i \in DOMAIN d.project : d.project[i].name = name
       THEN [status |-> 409, db |-> d, project |-> <<>>]
       ELSE [status |-> 200,
             db |-> [d EXCEPT !.project =
                        [i \in DOMAIN d.project \cup {id} |->
                            IF i = id THEN row ELSE d.project[i]]],
             project |-> <<[id |-> id, name |-> name, admin_key |-> admin_key]>>]

\* create_project: the status of the answer, the store afterwards and the
\* ProjectRead returned.  generated is what secrets.token_urlsafe(16) returns
CreateProject(d, admin_ctx, data, generated) ==
    LET name == Strip(data.name)
        admin_key == Strip(IF Truthy(data.admin_key) THEN data.admin_key
                           ELSE generated)
        id == NextId(DOMAIN d.project)
        row == [name |-> name, admin_key |-> admin_key]
    IN IF ~admin_ctx.is_super_admin
       THEN [status |-> 403, db |-> d, project |-> <<>>]
       ELSE IF ~Truthy(name)
       THEN [status |-> 400, db |-> d, project |-> <<>>]
       ELSE IF \E i \in DOMAIN d.project : d.project[i].name = name
       THEN [status |-> 409, db |-> d, project |-> <<>>]
       ELSE [status |-> 200,
             db |-> [d EXCEPT !.project =
                        [i \in DOMAIN d.project \cup {id} |->
                            IF i = id THEN row ELSE d.project[i]]],
             project |-> <<[id |-> id, name |-> name, admin_key |-> admin_key]>>]

-----------------------------------------------------------------------------
(* The rows of the tenant-scoped tables.  A user, a questionnaire, an      *)
(* assignment and a diary entry carry their project_id; a question belongs *)
(* to the project of its questionnaire, a choice to that of its question.  *)
(* Of each row the model keeps the keys and one value.  user.email and     *)
(* user.participant_code are not kept: an insert their unique indexes       *)
(* refuse changes nothing.  No admin route reads or writes the task table. *)

\* the tables whose rows belong to a project
ScopedTables ==
    {"user", "questionnaire", "question", "choice", "assignment", "diaryentry"}

\* the number of rows of the tenant-scoped tables
NumObjects(d) ==
    Cardinality(DOMAIN d.user) + Cardinality(DOMAIN d.questionnaire) +
    Cardinality(DOMAIN d.question) + Cardinality(DOMAIN d.choice) +
    Cardinality(DOMAIN d.assignment) + Cardinality(DOMAIN d.diaryentry)

\* the stores the requests may reach: at most MaxObjects rows, MaxPerTable
\* of a table, and up to MaxRows questionnaires in a store that holds
\* nothing else; the ids of a table stay within the number of its rows
WithinBounds(d) ==
    LET cap(tbl) == IF tbl = "questionnaire" /\
                       NumObjects(d) = Cardinality(DOMAIN d.questionnaire)
                    THEN MaxRows ELSE MaxPerTable
    IN /\ NumObjects(d) <= MaxObjects
       /\ \A tbl \in ScopedTables :
             /\ Cardinality(DOMAIN d[tbl]) <= cap(tbl)
             /\ \A i \in DOMAIN d[tbl] : i <= cap(tbl)

\* db.add(row); db.commit(): the row gets the next id of its table
Insert(d, tbl, row) ==
    LET old == d[tbl]
        id == NextId(DOMAIN old)
    IN [d EXCEPT ![tbl] = [i \in DOMAIN old \cup {id} |->
                              IF i = id THEN row ELSE old[i]]]

\* db.delete(row) for the rows ids of table tbl
Remove(d, tbl, ids) ==
    LET old == d[tbl] IN [d EXCEPT ![tbl] = [i \in DOMAIN old \ ids |-> old[i]]]

\* select(Question).where(Question.questionnaire_id == qid)
QuestionsOf(d, qid) ==
    {i \in DOMAIN d.question : d.question[i].questionnaire_id = qid}

\* select(Choice).where(Choice.question_id == qu.id)
ChoicesOf(d, quid) == {i \in DOMAIN d.choice : d.choice[i].question_id = quid}

\* the project a row belongs to, NoneId when it has none
ProjectOf(d, tbl, i) ==
    CASE tbl = "question" ->
           IF d.question[i].questionnaire_id \in DOMAIN d.questionnaire
           THEN d.questionnaire[d.question[i].questionnaire_id].project_id
           ELSE NoneId
      [] tbl = "choice" ->
           LET qu == d.choice[i].question_id
           IN IF qu \in DOMAIN d.question /\
                 d.question[qu].questionnaire_id \in DOMAIN d.questionnaire
              THEN d.questionnaire[d.question[qu].questionnaire_id].project_id
              ELSE NoneId
      [] OTHER -> d[tbl][i].project_id

\* the rows ids of table tbl, as the objects of an answer
Objs(tbl, ids) == {<<tbl, i>> : i \in ids}

\* serialize_question_with_choices: the question and its choices
SerializeQuestionWithChoices(d, quid) ==
    Objs("question", {quid}) \cup Objs("choice", ChoicesOf(d, quid))

\* serialize_questionnaire: the questionnaire, its questions, their choices
SerializeQuestionnaire(d, qid) ==
    Objs("questionnaire", {qid}) \cup
    UNION {SerializeQuestionWithChoices(d, qu) : qu \in QuestionsOf(d, qid)}

\* the backend checks foreign keys: sqlite does not unless asked to
ForeignKeys(be) == be # "sqlite"

\* the store refuses a row whose project_id names no project
FkRefused(d, be, project_id) ==
    ForeignKeys(be) /\ project_id # NoneId /\ project_id \notin DOMAIN d.project

-----------------------------------------------------------------------------
(* Token sizes: the nbytes of each secrets.token_urlsafe call.             *)

\* the backfill of project.admin_key
BackfillAdminKeyBytes == 16

\* the backfill of questionnaire.assignment_key
BackfillAssignmentKeyBytes == 8

\* _generate_unique_assignment_key
AssignmentKeyBytes == 8

\* create_project
AdminKeyBytes == 16

\* token_urlsafe(nbytes) encodes nbytes random bytes: its entropy in bits
EntropyBits(nbytes) == 8 * nbytes

\* the token sizes the backfill statements of ss drew
DrawnBy(ss) ==
    {IF ss[k].tbl = "project" THEN BackfillAdminKeyBytes
     ELSE BackfillAssignmentKeyBytes :
        k \in {n \in 1..Len(ss) : ss[n].kind = "update"}}

\* what secrets.token_urlsafe(8) may return in a request
AssignmentTokens == Tokens \cup {"k3"}

\* the values _generate_unique_assignment_key may return: a token that no
\* questionnaire holds
UnusedAssignmentKeys(d) ==
    {k \in AssignmentTokens : \A i \in DOMAIN d.questionnaire :
                                  d.questionnaire[i].assignment_key # k}

-----------------------------------------------------------------------------
(* The scope check and the admin handlers.  A handler's result: the status *)
(* of the answer, the store afterwards, the rows the answer shows, the     *)
(* scope checks it made and the sizes of the tokens it drew.               *)

\* mutant of EnsureProjectAllowed: a scope that holds any project passes
EnsureProjectAllowedAnyScope(admin_ctx, project_id) ==
    admin_ctx.is_super_admin \/ admin_ctx.project_ids # {}

\* _ensure_project_allowed: TRUE when it returns, FALSE when it raises 403
EnsureProjectAllowed(admin_ctx, project_id) ==
    \/ admin_ctx.is_super_admin
    \/ ~(project_id = NoneId \/ project_id \notin admin_ctx.project_ids)

\* one call of _ensure_project_allowed and its outcome
Check(admin_ctx, project_id) ==
    [project_id |-> project_id,
     allowed |-> EnsureProjectAllowed(admin_ctx, project_id)]

Answer(d, returned, checks, drawn) ==
    [status |-> 200, db |-> d, returned |-> returned, checks |-> checks,
     drawn |-> drawn, args |-> NoArgs]

\* HTTPException, or an error of the store: nothing is committed
Raise(status, d, checks, drawn) ==
    [status |-> status, db |-> d, returned |-> {}, checks |-> checks,
     drawn |-> drawn, args |-> NoArgs]

\* the body list_users, list_questionnaires, list_entries and
\* list_assignments share: the rows of tbl a scope may list
ListScoped(d, tbl, admin_ctx, project_id) ==
    LET of(p) == {i \in DOMAIN d[tbl] : d[tbl][i].project_id = p}
        c == Check(admin_ctx, project_id)
    IN IF admin_ctx.is_super_admin
       THEN Answer(d, Objs(tbl, IF project_id # NoneId THEN of(project_id)
                                ELSE DOMAIN d[tbl]), <<>>, {})
       ELSE IF admin_ctx.project_ids = {}
       THEN Answer(d, {}, <<>>, {})
       ELSE IF project_id # NoneId
       THEN IF ~c.allowed THEN Raise(403, d, <<c>>, {})
            ELSE Answer(d, Objs(tbl, of(project_id)), <<c>>, {})
       ELSE Answer(d, Objs(tbl, {i \in DOMAIN d[tbl] :
                                    d[tbl][i].project_id \in admin_ctx.project_ids}),
                   <<>>, {})

\* GET /api/admin/users
ListUsers(d, admin_ctx, project_id) == ListScoped(d, "user", admin_ctx, project_id)

\* POST /api/admin/users
CreateUser(d, be, admin_ctx, data) ==
    LET c == Check(admin_ctx, data.project_id)
        d1 == Insert(d, "user", [project_id |-> data.project_id, name |-> data.name])
    IN IF ~c.allowed THEN Raise(403, d, <<c>>, {})
       ELSE IF FkRefused(d, be, data.project_id) THEN Raise(500, d, <<c>>, {})
       ELSE Answer(d1, Objs("user", {NextId(DOMAIN d.user)}), <<c>>, {})

\* GET /api/admin/users/{user_id}
GetUser(d, admin_ctx, user_id) ==
    IF user_id \notin DOMAIN d.user THEN Raise(404, d, <<>>, {})
    ELSE LET c == Check(admin_ctx, d.user[user_id].project_id)
         IN IF ~c.allowed THEN Raise(403, d, <<c>>, {})
            ELSE Answer(d, Objs("user", {user_id}), <<c>>, {})

\* mutant of UpdateUser: the check of the project the user is moved to left out
UpdateUserSourceCheckOnly(d, be, admin_ctx, user_id, data) ==
    IF user_id \notin DOMAIN d.user THEN Raise(404, d, <<>>, {})
    ELSE LET c1 == Check(admin_ctx, d.user[user_id].project_id)
             d1 == [d EXCEPT !.user[user_id] =
                       [project_id |-> data.project_id, name |-> data.name]]
         IN IF ~c1.allowed THEN Raise(403, d, <<c1>>, {})
            ELSE IF FkRefused(d, be, data.project_id)
            THEN Raise(500, d, <<c1>>, {})
            ELSE Answer(d1, Objs("user", {user_id}), <<c1>>, {})

\* PUT /api/admin/users/{user_id}
UpdateUser(d, be, admin_ctx, user_id, data) ==
    IF user_id \notin DOMAIN d.user THEN Raise(404, d, <<>>, {})
    ELSE LET c1 == Check(admin_ctx, d.user[user_id].project_id)
             c2 == Check(admin_ctx, data.project_id)
             d1 == [d EXCEPT !.user[user_id] =
                       [project_id |-> data.project_id, name |-> data.name]]
         IN IF ~c1.allowed THEN Raise(403, d, <<c1>>, {})
            ELSE IF ~c2.allowed THEN Raise(403, d, <<c1, c2>>, {})
            ELSE IF FkRefused(d, be, data.project_id)
            THEN Raise(500, d, <<c1, c2>>, {})
            ELSE Answer(d1, Objs("user", {user_id}), <<c1, c2>>, {})

\* the rows of tbl that name row id in their column col
Referencing(d, tbl, col, id) == {i \in DOMAIN d[tbl] : d[tbl][i][col] = id}

\* DELETE /api/admin/users/{user_id}.  The session sets user_id to NULL in
\* the assignments and entries of User.assignments and User.entries, which
\* their NOT NULL columns refuse
DeleteUser(d, admin_ctx, user_id) ==
    IF user_id \notin DOMAIN d.user THEN Raise(404, d, <<>>, {})
    ELSE LET c == Check(admin_ctx, d.user[user_id].project_id)
         IN IF ~c.allowed THEN Raise(403, d, <<c>>, {})
            ELSE IF Referencing(d, "assignment", "user_id", user_id) # {} \/
                    Referencing(d, "diaryentry", "user_id", user_id) # {}
            THEN Raise(500, d, <<c>>, {})
            ELSE Answer(Remove(d, "user", {user_id}), {}, <<c>>, {})

\* GET /api/admin/questionnaires
ListQuestionnaires(d, admin_ctx, project_id) ==
    LET r == ListScoped(d, "questionnaire", admin_ctx, project_id)
    IN [r EXCEPT !.returned = UNION {SerializeQuestionnaire(d, o[2]) : o \in @}]

RECURSIVE AddChoices(_, _, _)
\* the Choice rows of a QuestionCreate, added to question quid
AddChoices(d, quid, choices) ==
    IF choices = <<>> THEN d
    ELSE AddChoices(Insert(d, "choice", [question_id |-> quid, text |-> Head(choices)]),
                    quid, Tail(choices))

\* the choices of a QuestionCreate: "if data.choices" skips None and []
ChoicesGiven(qd) == IF qd.choices = NoList THEN <<>> ELSE qd.choices[1]

RECURSIVE AddQuestions(_, _, _)
\* the Question rows of a QuestionnaireCreate, each with its choices
AddQuestions(d, qid, questions) ==
    IF questions = <<>> THEN d
    ELSE LET qd == Head(questions)
             quid == NextId(DOMAIN d.question)
             d1 == Insert(d, "question", [questionnaire_id |-> qid, text |-> qd.text])
         IN AddQuestions(AddChoices(d1, quid, ChoicesGiven(qd)), qid, Tail(questions))

\* the unique index on questionnaire.assignment_key refuses key for a row
\* other than qid
KeyRefused(d, qid, key) ==
    d.uniq /\ key # None /\
    \E i \in DOMAIN d.questionnaire :
        i # qid /\ d.questionnaire[i].assignment_key = key

\* POST /api/admin/questionnaires.  generated is what
\* _generate_unique_assignment_key returns
CreateQuestionnaire(d, be, admin_ctx, data, generated) ==
    LET c == Check(admin_ctx, data.project_id)
        given == Truthy(data.assignment_key)
        assignment_key == IF given THEN data.assignment_key ELSE generated
        drawn == IF given THEN {} ELSE {AssignmentKeyBytes}
        id == NextId(DOMAIN d.questionnaire)
        d1 == Insert(d, "questionnaire",
                     [name |-> data.name, project_id |-> data.project_id,
                      assignment_key |-> assignment_key])
        d2 == AddQuestions(d1, id, IF data.questions = NoList THEN <<>>
                                   ELSE data.questions[1])
    IN IF ~c.allowed THEN Raise(403, d, <<c>>, {})
       ELSE IF FkRefused(d, be, data.project_id) \/ KeyRefused(d, 0, assignment_key)
       THEN Raise(500, d, <<c>>, drawn)
       ELSE Answer(d2, SerializeQuestionnaire(d2, id), <<c>>, drawn)

\* GET /api/admin/questionnaires/{qid}
GetQuestionnaire(d, admin_ctx, qid) ==
    IF qid \notin DOMAIN d.questionnaire THEN Raise(404, d, <<>>, {})
    ELSE LET c == Check(admin_ctx, d.questionnaire[qid].project_id)
         IN IF ~c.allowed THEN Raise(403, d, <<c>>, {})
            ELSE Answer(d, SerializeQuestionnaire(d, qid), <<c>>, {})

\* mutant of UpdateQuestionnaire: a request without a key draws a new one,
\* whatever the row holds
UpdateQuestionnaireRegenerate(d, be, admin_ctx, qid, data, generated) ==
    IF qid \notin DOMAIN d.questionnaire THEN Raise(404, d, <<>>, {})
    ELSE LET q == d.questionnaire[qid]
             c1 == Check(admin_ctx, q.project_id)
             c2 == Check(admin_ctx, data.project_id)
             supplied == Truthy(data.assignment_key) /\
                         data.assignment_key # q.assignment_key
             exists == {i \in DOMAIN d.questionnaire :
                           d.questionnaire[i].assignment_key = data.assignment_key}
             generates == ~supplied
             assignment_key == IF supplied THEN data.assignment_key
                               ELSE IF generates THEN generated
                               ELSE q.assignment_key
             drawn == IF generates THEN {AssignmentKeyBytes} ELSE {}
             d1 == [d EXCEPT !.questionnaire[qid] =
                       [name |-> data.name, project_id |-> data.project_id,
                        assignment_key |-> assignment_key]]
         IN IF ~c1.allowed THEN Raise(403, d, <<c1>>, {})
            ELSE IF ~c2.allowed THEN Raise(403, d, <<c1, c2>>, {})
            ELSE IF supplied /\ exists \ {qid} # {}
            THEN Raise(409, d, <<c1, c2>>, {})
            ELSE IF FkRefused(d, be, data.project_id) \/
                    KeyRefused(d, qid, assignment_key)
            THEN Raise(500, d, <<c1, c2>>, drawn)
            ELSE Answer(d1, SerializeQuestionnaire(d1, qid), <<c1, c2>>, drawn)

\* PUT /api/admin/questionnaires/{qid}
UpdateQuestionnaire(d, be, admin_ctx, qid, data, generated) ==
    IF qid \notin DOMAIN d.questionnaire THEN Raise(404, d, <<>>, {})
    ELSE LET q == d.questionnaire[qid]
             c1 == Check(admin_ctx, q.project_id)
             c2 == Check(admin_ctx, data.project_id)
             supplied == Truthy(data.assignment_key) /\
                         data.assignment_key # q.assignment_key
             exists == {i \in DOMAIN d.questionnaire :
                           d.questionnaire[i].assignment_key = data.assignment_key}
             generates == ~supplied /\ ~Truthy(q.assignment_key)
             assignment_key == IF supplied THEN data.assignment_key
                               ELSE IF generates THEN generated
                               ELSE q.assignment_key
             drawn == IF generates THEN {AssignmentKeyBytes} ELSE {}
             d1 == [d EXCEPT !.questionnaire[qid] =
                       [name |-> data.name, project_id |-> data.project_id,
                        assignment_key |-> assignment_key]]
         IN IF ~c1.allowed THEN Raise(403, d, <<c1>>, {})
            ELSE IF ~c2.allowed THEN Raise(403, d, <<c1, c2>>, {})
            ELSE IF supplied /\ exists \ {qid} # {}
            THEN Raise(409, d, <<c1, c2>>, {})
            ELSE IF FkRefused(d, be, data.project_id) \/
                    KeyRefused(d, qid, assignment_key)
            THEN Raise(500, d, <<c1, c2>>, drawn)
            ELSE Answer(d1, SerializeQuestionnaire(d1, qid), <<c1, c2>>, drawn)

\* DELETE /api/admin/questionnaires/{qid}: its questions and their choices
\* go with it.  The session sets questionnaire_id to NULL in the entries of
\* Questionnaire.entries, which the NOT NULL column refuses; a backend that
\* checks foreign keys refuses to leave an assignment without its
\* questionnaire
DeleteQuestionnaire(d, be, admin_ctx, qid) ==
    IF qid \notin DOMAIN d.questionnaire THEN Raise(404, d, <<>>, {})
    ELSE LET c == Check(admin_ctx, d.questionnaire[qid].project_id)
             qs == QuestionsOf(d, qid)
             cs == UNION {ChoicesOf(d, qu) : qu \in qs}
         IN IF ~c.allowed THEN Raise(403, d, <<c>>, {})
            ELSE IF \/ Referencing(d, "diaryentry", "questionnaire_id", qid) # {}
                    \/ /\ ForeignKeys(be)
                       /\ Referencing(d, "assignment", "questionnaire_id", qid) # {}
            THEN Raise(500, d, <<c>>, {})
            ELSE Answer(Remove(Remove(Remove(d, "choice", cs), "question", qs),
                               "questionnaire", {qid}),
                        {}, <<c>>, {})

\* GET /api/admin/questionnaires/{qid}/questions
ListQuestions(d, admin_ctx, qid) ==
    IF qid \notin DOMAIN d.questionnaire THEN Raise(404, d, <<>>, {})
    ELSE LET c == Check(admin_ctx, d.questionnaire[qid].project_id)
         IN IF ~c.allowed THEN Raise(403, d, <<c>>, {})
            ELSE Answer(d, UNION {SerializeQuestionWithChoices(d, qu) :
                                     qu \in QuestionsOf(d, qid)}, <<c>>, {})

\* POST /api/admin/questionnaires/{qid}/questions
AddQuestion(d, admin_ctx, qid, data) ==
    IF qid \notin DOMAIN d.questionnaire THEN Raise(404, d, <<>>, {})
    ELSE LET c == Check(admin_ctx, d.questionnaire[qid].project_id)
             quid == NextId(DOMAIN d.question)
             d1 == Insert(d, "question", [questionnaire_id |-> qid, text |-> data.text])
             d2 == AddChoices(d1, quid, ChoicesGiven(data))
         IN IF ~c.allowed THEN Raise(403, d, <<c>>, {})
            ELSE Answer(d2, SerializeQuestionWithChoices(d2, quid), <<c>>, {})

\* PUT /api/admin/questions/{qid}: choices that are given replace the
\* question's choices
UpdateQuestion(d, admin_ctx, quid, data) ==
    IF quid \notin DOMAIN d.question THEN Raise(404, d, <<>>, {})
    ELSE IF d.question[quid].questionnaire_id \notin DOMAIN d.questionnaire
    THEN Raise(404, d, <<>>, {})
    ELSE LET parent == d.questionnaire[d.question[quid].questionnaire_id]
             c == Check(admin_ctx, parent.project_id)
             d1 == [d EXCEPT !.question[quid].text = data.text]
             d2 == IF data.choices = NoList THEN d1
                   ELSE AddChoices(Remove(d1, "choice", ChoicesOf(d1, quid)),
                                   quid, data.choices[1])
         IN IF ~c.allowed THEN Raise(403, d, <<c>>, {})
            ELSE Answer(d2, SerializeQuestionWithChoices(d2, quid), <<c>>, {})

\* DELETE /api/admin/questions/{qid}
DeleteQuestion(d, admin_ctx, quid) ==
    IF quid \notin DOMAIN d.question THEN Raise(404, d, <<>>, {})
    ELSE IF d.question[quid].questionnaire_id \notin DOMAIN d.questionnaire
    THEN Raise(404, d, <<>>, {})
    ELSE LET parent == d.questionnaire[d.question[quid].questionnaire_id]
             c == Check(admin_ctx, parent.project_id)
         IN IF ~c.allowed THEN Raise(403, d, <<c>>, {})
            ELSE Answer(Remove(Remove(d, "choice", ChoicesOf(d, quid)),
                               "question", {quid}),
                        {}, <<c>>, {})

\* GET /api/admin/entries
ListEntries(d, admin_ctx, project_id) ==
    ListScoped(d, "diaryentry", admin_ctx, project_id)

\* GET /api/admin/assignments
ListAssignments(d, admin_ctx, project_id) ==
    ListScoped(d, "assignment", admin_ctx, project_id)

\* POST /api/admin/assignments
CreateAssignment(d, admin_ctx, data) ==
    IF data.user_id \notin DOMAIN d.user THEN Raise(404, d, <<>>, {})
    ELSE IF data.questionnaire_id \notin DOMAIN d.questionnaire
    THEN Raise(404, d, <<>>, {})
    ELSE LET user == d.user[data.user_id]
             questionnaire == d.questionnaire[data.questionnaire_id]
             candidate_project_ids ==
                 SelectSeq(<<data.project_id, user.project_id,
                             questionnaire.project_id>>,
                           LAMBDA pid : pid # NoneId)
             project_id == candidate_project_ids[1]
             c == Check(admin_ctx, project_id)
             d1 == Insert(d, "assignment",
                          [user_id |-> data.user_id,
                           questionnaire_id |-> data.questionnaire_id,
                           project_id |-> project_id])
         IN IF candidate_project_ids = <<>> THEN Raise(400, d, <<>>, {})
            ELSE IF \E k \in 1..Len(candidate_project_ids) :
                       candidate_project_ids[k] # project_id
            THEN Raise(400, d, <<>>, {})
            ELSE IF ~c.allowed THEN Raise(403, d, <<c>>, {})
            ELSE IF project_id \notin DOMAIN d.project
            THEN Raise(404, d, <<c>>, {})
            ELSE Answer(d1, Objs("assignment", {NextId(DOMAIN d.assignment)}),
                        <<c>>, {})

\* DELETE /api/admin/assignments/{aid}
DeleteAssignment(d, admin_ctx, aid) ==
    IF aid \notin DOMAIN d.assignment THEN Raise(404, d, <<>>, {})
    ELSE LET c == Check(admin_ctx, d.assignment[aid].project_id)
         IN IF ~c.allowed THEN Raise(403, d, <<c>>, {})
            ELSE Answer(Remove(d, "assignment", {aid}), {}, <<c>>, {})

\* POST /api/user/submit, a route without admin_auth: the participant's
\* entry takes the project of the user
SubmitEntry(d, user_id, questionnaire_id) ==
    IF user_id \notin DOMAIN d.user THEN Raise(404, d, <<>>, {})
    ELSE IF questionnaire_id \notin DOMAIN d.questionnaire
    THEN Raise(404, d, <<>>, {})
    ELSE Answer(Insert(d, "diaryentry",
                       [user_id |-> user_id, questionnaire_id |-> questionnaire_id,
                        project_id |-> d.user[user_id].project_id]),
                {}, <<>>, {})

-----------------------------------------------------------------------------
(* The stores a process may be started on.                                 *)

\* the declared columns an older store may lack: all but the primary key
Droppable(ts) == UNION {{<<t, c>> : c \in ModelColumns(t) \ {"id"}} : t \in ts}

RECURSIVE UpTo(_, _)
\* the subsets of S with at most n elements
UpTo(S, n) ==
    IF n = 0 THEN {{}}
    ELSE UpTo(S, n - 1) \cup {x \cup {e} : x \in UpTo(S, n - 1), e \in S}

\* the rows of project: ids 1..n, the name is the row's own
ProjectRows(n, keys) ==
    {[i \in 1..n |-> [name |-> ToString(i), admin_key |-> k[i]]] : k \in [1..n -> keys]}

\* the rows of questionnaire: ids 1..n
QuestionnaireRows(n, keys) ==
    {[i \in 1..n |-> [name |-> ToString(i), project_id |-> NoneId,
                      assignment_key |-> k[i]]] : k \in [1..n -> keys]}

\* the unique index admits the rows: no two rows share a non-NULL key
UniqueKeys(rows) ==
    \A i, j \in DOMAIN rows :
        i # j /\ rows[i].assignment_key # None
            => rows[i].assignment_key # rows[j].assignment_key

\* the stores with the target tables but those of absent, the columns but
\* those of missing, and at most n rows in project and questionnaire
Stores(absent, others, missing, n) ==
    LET tables == (TargetTables \ absent) \cup others
        cols == [t \in AllTables |->
                    IF t \in tables
                    THEN ModelColumns(t) \ {c \in ModelColumns(t) : <<t, c>> \in missing}
                    ELSE {}]
        pkeys == IF "admin_key" \in cols["project"] THEN KeyValues ELSE {None}
        qkeys == IF "assignment_key" \in cols["questionnaire"] THEN KeyValues ELSE {None}
        prows == IF "project" \in tables
                 THEN UNION {ProjectRows(k, pkeys) : k \in 0..n} ELSE {<<>>}
        qrows == IF "questionnaire" \in tables
                 THEN UNION {QuestionnaireRows(k, qkeys) : k \in 0..n} ELSE {<<>>}
        uniqs == IF "assignment_key" \in cols["questionnaire"] THEN BOOLEAN ELSE {FALSE}
    IN {d \in [tables : {tables}, cols : {cols}, project : prows,
               questionnaire : qrows, user : {<<>>}, question : {<<>>},
               choice : {<<>>}, assignment : {<<>>}, diaryentry : {<<>>},
               uniq : uniqs] :
           /\ Len(d.project) + Len(d.questionnaire) <= n
           /\ d.uniq => UniqueKeys(d.questionnaire)}

\* older stores whose rows vary: all target tables, with or without the
\* token columns
DataStores ==
    UNION {Stores({}, {}, m, MaxRows) :
             m \in SUBSET {<<"project", "admin_key">>,
                           <<"questionnaire", "assignment_key">>}}

\* the target tables an older store lacks: none, one, or all of them
AbsentTables == {{}, TargetTables} \cup {{t} : t \in TargetTables}

\* older stores whose catalog varies: tables absent, at most MaxMissing
\* declared columns missing, a foreign table or none; no rows
SchemaStores ==
    UNION {UNION {Stores(a, o, m, 0) :
                     o \in SUBSET {OtherTable},
                     m \in UpTo(Droppable(TargetTables \ a), MaxMissing)} :
             a \in AbsentTables}

NoBoot ==
    [pre |-> EmptyDb, preFile |-> FALSE, afterOk |-> FALSE, ok |-> FALSE,
     created |-> None, done |-> <<>>, raised |-> <<>>, drawn |-> {},
     ran |-> FALSE]

NoAuth == [cred |-> None, ids |-> {}, resp |-> [status |-> 0, ctx |-> NoContext]]

\* the state a process starts in on a store of S: with sqlite the file may
\* not exist yet, and any backend may hold a store with no tables
InitOn(S, secrets) ==
    /\ backend \in Backends
    /\ adminApiKey \in secrets
    /\ \/ fileExists = FALSE /\ backend = "sqlite" /\ db = EmptyDb
       \/ fileExists = TRUE /\ db \in S \cup {EmptyDb}
    /\ ready = FALSE
    /\ boot = NoBoot
    /\ auth = NoAuth
    /\ reply = NoReply
    /\ proc = <<>>

\* a deployment on a new store
Init == InitOn({}, Secrets)

\* a start on an older store whose rows vary
InitData == InitOn(DataStores, {"S"})

\* a start on an older store whose catalog varies
InitSchema == InitOn(SchemaStores, {"S"})

-----------------------------------------------------------------------------
(* The operations.  boot, auth and reply describe the last operation: an   *)
(* operation resets the ones it does not set.                              *)

\* the rows of table t the backfill of a run on d writes
BackfillIds(d, t) ==
    IF t = "project"
    THEN {i \in DOMAIN d.project : NeedsBackfill(d.project[i].admin_key)}
    ELSE {i \in DOMAIN d.questionnaire :
             NeedsBackfill(d.questionnaire[i].assignment_key)}

\* the lifespan of a process: get_or_create_db runs to its end.  The tokens
\* the backfill draws and the statement the storage fails, if any, are the
\* run's inputs
Bootstrap ==
    \E tokP \in [BackfillIds(db, "project") -> Tokens],
       tokQ \in [BackfillIds(db, "questionnaire") -> Tokens] :
      \E fail \in 0..RunLength(db, tokP, tokQ) :
        LET r == GetOrCreateDb(db, backend, fileExists, fail, tokP, tokQ)
        IN /\ db' = r.db
           /\ ready' = r.ok
           /\ fileExists' = TRUE
           /\ boot' = [pre |-> db, preFile |-> fileExists, afterOk |-> ready,
                       ok |-> r.ok, created |-> r.created, done |-> r.done,
                       raised |-> r.raised,
                       drawn |-> DrawnBy(r.done) \cup DrawnBy(r.raised),
                       ran |-> TRUE]
           /\ auth' = NoAuth
           /\ reply' = NoReply
           /\ UNCHANGED <<backend, adminApiKey, proc>>

\* a request to a route that depends on admin_auth, once the process
\* serves: the resolution of its credential
AdminRequest ==
    /\ ready
    /\ \E method \in RouteMethods, x_admin_key \in Credentials :
          auth' = [cred |-> x_admin_key, ids |-> AllProjectIds(db),
                   resp |-> AdminAuth(method, x_admin_key, db, adminApiKey)]
    /\ reply' = NoReply
    /\ boot' = NoBoot
    /\ UNCHANGED <<backend, adminApiKey, fileExists, db, ready, proc>>

\* POST /api/admin/projects: admin_auth, then create_project
CreateProjectRequest ==
    /\ ready
    /\ Cardinality(DOMAIN db.project) < MaxProjects
    /\ \E x_admin_key \in Credentials, name \in ProjectNames,
          key \in SuppliedKeys, generated \in Tokens :
          LET a == AdminAuth("POST", x_admin_key, db, adminApiKey)
              r == CreateProject(db, a.ctx, [name |-> name, admin_key |-> key],
                                 generated)
          IN /\ auth' = [cred |-> x_admin_key, ids |-> AllProjectIds(db), resp |-> a]
             /\ IF a.status # 200
                THEN /\ reply' = [NoReply EXCEPT !.op = "create_project",
                                                 !.status = a.status]
                     /\ db' = db
                ELSE /\ reply' = [NoReply EXCEPT
                                     !.op = "create_project",
                                     !.status = r.status,
                                     !.project = r.project,
                                     !.drawn = IF r.status = 200 /\ ~Truthy(key)
                                               THEN {AdminKeyBytes} ELSE {}]
                     /\ db' = r.db
    /\ boot' = NoBoot
    /\ UNCHANGED <<backend, adminApiKey, fileExists, ready, proc>>

Next == Bootstrap \/ AdminRequest \/ CreateProjectRequest

Spec == Init /\ [][Next]_vars

\* the process starts, and starts again
Restart == Bootstrap

SpecData == InitData /\ [][Restart]_vars

SpecSchema == InitSchema /\ [][Restart]_vars

-----------------------------------------------------------------------------
(* The admin routes of a process that serves.                              *)

\* the X-Admin-Key of the requests to the tenant-scoped routes: the secret
\* and the project keys
AdminKeys == {"S"} \cup Keys

\* the project_id of a request body, and of a query string
ProjectIdInputs == {1, 2}
QueryProjectIds == {NoneId} \cup ProjectIdInputs

\* the ids a request path may name: those of the rows of the table, and
\* one that is no row's
PathIds(tbl) == DOMAIN db[tbl] \cup {NextId(DOMAIN db[tbl])}

\* the names and texts of a request body
Labels == {"a"}

\* the name of a QuestionnaireCreate
QuestionnaireNames == {"a"}

\* the QuestionCreate bodies
QuestionInputs ==
    {[text |-> "a", choices |-> NoList],
     [text |-> "b", choices |-> ListOf(<<>>)],
     [text |-> "b", choices |-> ListOf(<<"a">>)]}

\* the questions of a QuestionnaireCreate: none, or one with or without a
\* choice
QuestionLists ==
    {NoList, ListOf(<<[text |-> "a", choices |-> NoList]>>),
     ListOf(<<[text |-> "a", choices |-> ListOf(<<"a">>)]>>)}

\* the assignment_key of a QuestionnaireCreate
SuppliedAssignmentKeys == {None, ""} \cup Keys

\* no request is being served: the answer to the last one has been sent
Idle == auth = NoAuth /\ reply = NoReply

\* the AdminContext admin_auth gives the handler of a request
Ctx(method, x_admin_key) == AdminAuth(method, x_admin_key, db, adminApiKey).ctx

\* a request to an admin route: admin_auth resolves the credential, then
\* the handler runs with the context and gives r.  The requests are served one at a
\* time; no handler reads what was answered to the request before
Serve(op, method, x_admin_key, r) ==
    LET a == AdminAuth(method, x_admin_key, db, adminApiKey)
    IN /\ Idle
       /\ auth' = [cred |-> x_admin_key, ids |-> AllProjectIds(db), resp |-> a]
       /\ IF a.status # 200
          THEN /\ reply' = [NoReply EXCEPT !.op = op, !.status = a.status]
               /\ db' = db
          ELSE /\ reply' = [NoReply EXCEPT !.op = op, !.status = r.status,
                                           !.returned = r.returned,
                                           !.checks = r.checks,
                                           !.drawn = r.drawn,
                                           !.args = r.args]
               /\ db' = r.db
       /\ WithinBounds(db')
       /\ boot' = NoBoot
       /\ UNCHANGED <<backend, adminApiKey, fileExists, ready, proc>>

ListUsersRequest ==
    /\ ready
    /\ \E key \in AdminKeys, project_id \in QueryProjectIds :
           Serve("list_users", "GET", key, ListUsers(db, Ctx("GET", key), project_id))

CreateUserRequest ==
    /\ ready
    /\ \E key \in AdminKeys, project_id \in ProjectIdInputs, name \in Labels :
           Serve("create_user", "POST", key,
                 CreateUser(db, backend, Ctx("POST", key),
                                         [project_id |-> project_id, name |-> name]))

GetUserRequest ==
    /\ ready
    /\ \E key \in AdminKeys, user_id \in PathIds("user") :
           Serve("get_user", "GET", key, GetUser(db, Ctx("GET", key), user_id))

UpdateUserRequest ==
    /\ ready
    /\ \E key \in AdminKeys, user_id \in PathIds("user"),
          project_id \in ProjectIdInputs, name \in Labels :
           Serve("update_user", "PUT", key,
                 UpdateUser(db, backend, Ctx("PUT", key), user_id,
                                         [project_id |-> project_id, name |-> name]))

DeleteUserRequest ==
    /\ ready
    /\ \E key \in AdminKeys, user_id \in PathIds("user") :
           Serve("delete_user", "DELETE", key, DeleteUser(db, Ctx("DELETE", key), user_id))

ListQuestionnairesRequest ==
    /\ ready
    /\ \E key \in AdminKeys, project_id \in QueryProjectIds :
           Serve("list_questionnaires", "GET", key,
                 ListQuestionnaires(db, Ctx("GET", key), project_id))

CreateQuestionnaireRequest ==
    /\ ready
    /\ \E key \in AdminKeys, project_id \in ProjectIdInputs,
          name \in QuestionnaireNames,
          assignment_key \in SuppliedAssignmentKeys, questions \in QuestionLists,
          generated \in UnusedAssignmentKeys(db) :
           Serve("create_questionnaire", "POST", key,
                 CreateQuestionnaire(db, backend, Ctx("POST", key),
                                 [name |-> name, project_id |-> project_id,
                                  assignment_key |-> assignment_key,
                                  questions |-> questions],
                                 generated))

GetQuestionnaireRequest ==
    /\ ready
    /\ \E key \in AdminKeys, qid \in PathIds("questionnaire") :
           Serve("get_questionnaire", "GET", key,
                 GetQuestionnaire(db, Ctx("GET", key), qid))

UpdateQuestionnaireRequest ==
    /\ ready
    /\ \E key \in AdminKeys, qid \in PathIds("questionnaire"),
          project_id \in ProjectIdInputs, name \in QuestionnaireNames,
          assignment_key \in SuppliedAssignmentKeys,
          generated \in UnusedAssignmentKeys(db) :
           Serve("update_questionnaire", "PUT", key,
                 [UpdateQuestionnaire(db, backend, Ctx("PUT", key), qid,
                                 [name |-> name, project_id |-> project_id,
                                  assignment_key |-> assignment_key],
                                 generated)
                  EXCEPT !.args = [qid |-> qid,
                                   assignment_key |-> assignment_key]])

DeleteQuestionnaireRequest ==
    /\ ready
    /\ \E key \in AdminKeys, qid \in PathIds("questionnaire") :
           Serve("delete_questionnaire", "DELETE", key,
                 DeleteQuestionnaire(db, backend, Ctx("DELETE", key), qid))

ListQuestionsRequest ==
    /\ ready
    /\ \E key \in AdminKeys, qid \in PathIds("questionnaire") :
           Serve("list_questions", "GET", key, ListQuestions(db, Ctx("GET", key), qid))

AddQuestionRequest ==
    /\ ready
    /\ \E key \in AdminKeys, qid \in PathIds("questionnaire"), data \in QuestionInputs :
           Serve("add_question", "POST", key,
                 AddQuestion(db, Ctx("POST", key), qid, data))

UpdateQuestionRequest ==
    /\ ready
    /\ \E key \in AdminKeys, quid \in PathIds("question"), data \in QuestionInputs :
           Serve("update_question", "PUT", key,
                 UpdateQuestion(db, Ctx("PUT", key), quid, data))

DeleteQuestionRequest ==
    /\ ready
    /\ \E key \in AdminKeys, quid \in PathIds("question") :
           Serve("delete_question", "DELETE", key,
                 DeleteQuestion(db, Ctx("DELETE", key), quid))

ListEntriesRequest ==
    /\ ready
    /\ \E key \in AdminKeys, project_id \in QueryProjectIds :
           Serve("list_entries", "GET", key,
                 ListEntries(db, Ctx("GET", key), project_id))

ListAssignmentsRequest ==
    /\ ready
    /\ \E key \in AdminKeys, project_id \in QueryProjectIds :
           Serve("list_assignments", "GET", key,
                 ListAssignments(db, Ctx("GET", key), project_id))

CreateAssignmentRequest ==
    /\ ready
    /\ \E key \in AdminKeys, user_id \in PathIds("user"),
          questionnaire_id \in PathIds("questionnaire"),
          project_id \in QueryProjectIds :
           Serve("create_assignment", "POST", key,
                 CreateAssignment(db, Ctx("POST", key),
                                 [user_id |-> user_id,
                                  questionnaire_id |-> questionnaire_id,
                                  project_id |-> project_id]))

DeleteAssignmentRequest ==
    /\ ready
    /\ \E key \in AdminKeys, aid \in PathIds("assignment") :
           Serve("delete_assignment", "DELETE", key,
                 DeleteAssignment(db, Ctx("DELETE", key), aid))

\* a participant submits an entry: no credential, no AdminContext
SubmitEntryRequest ==
    /\ ready
    /\ Idle
    /\ \E user_id \in PathIds("user"), questionnaire_id \in PathIds("questionnaire") :
          LET r == SubmitEntry(db, user_id, questionnaire_id)
          IN /\ db' = r.db
             /\ reply' = [NoReply EXCEPT !.op = "submit_entry", !.status = r.status]
    /\ WithinBounds(db')
    /\ auth' = NoAuth
    /\ boot' = NoBoot
    /\ UNCHANGED <<backend, adminApiKey, fileExists, ready, proc>>

\* the answer is sent: the AdminContext and the answer of the request are
\* dropped
Respond ==
    /\ ~Idle
    /\ auth' = NoAuth
    /\ reply' = NoReply
    /\ UNCHANGED <<backend, adminApiKey, fileExists, db, ready, boot, proc>>

\* the stores of a process that serves two projects: every table and
\* column of the target schema, the unique index on assignment_key when the
\* store was created by create_all and not when the column was added by
\* ensure_column, and the rows of an older release that have no project
ServingStores ==
    LET base == ExecN(EmptyDb, CreateAll(EmptyDb), Len(MetadataTables))
        p == <<[name |-> "1", admin_key |-> "k1"],
               [name |-> "2", admin_key |-> "k2"]>>
    IN {[base EXCEPT !.project = p, !.uniq = TRUE],
        [base EXCEPT !.project = p, !.uniq = FALSE,
                     !.user = <<[project_id |-> NoneId, name |-> "a"]>>,
                     !.questionnaire = <<[name |-> "a", project_id |-> NoneId,
                                          assignment_key |-> "k2"]>>]}

InitAdmin ==
    /\ backend \in Backends
    /\ adminApiKey = "S"
    /\ fileExists = TRUE
    /\ db \in ServingStores
    /\ ready = TRUE
    /\ boot = NoBoot
    /\ auth = NoAuth
    /\ reply = NoReply
    /\ proc = <<>>

NextAdmin ==
    \/ ListUsersRequest
    \/ CreateUserRequest
    \/ GetUserRequest
    \/ UpdateUserRequest
    \/ DeleteUserRequest
    \/ ListQuestionnairesRequest
    \/ CreateQuestionnaireRequest
    \/ GetQuestionnaireRequest
    \/ UpdateQuestionnaireRequest
    \/ DeleteQuestionnaireRequest
    \/ ListQuestionsRequest
    \/ AddQuestionRequest
    \/ UpdateQuestionRequest
    \/ DeleteQuestionRequest
    \/ ListEntriesRequest
    \/ ListAssignmentsRequest
    \/ CreateAssignmentRequest
    \/ DeleteAssignmentRequest
    \/ SubmitEntryRequest
    \/ Respond

SpecAdmin == InitAdmin /\ [][NextAdmin]_vars

\* no two rows of questionnaire hold the same non-empty assignment_key
DistinctAssignmentKeys(d) ==
    \A i, j \in DOMAIN d.questionnaire :
        (i # j /\ Truthy(d.questionnaire[i].assignment_key)) =>
            d.questionnaire[i].assignment_key # d.questionnaire[j].assignment_key

\* a start on an older or a new store whose assignment keys are distinct
InitKeys == InitOn({d \in DataStores : DistinctAssignmentKeys(d)}, {"S"})

\* get_or_create_db runs, create_questionnaire and update_questionnaire
NextKeys ==
    \/ Bootstrap
    \/ CreateQuestionnaireRequest
    \/ UpdateQuestionnaireRequest
    \/ Respond

SpecKeys == InitKeys /\ [][NextKeys]_vars

-----------------------------------------------------------------------------
(* Process instances that start at the same time on one sqlite store.  Each *)
(* runs get_or_create_db statement by statement; a DDL statement is         *)
(* committed when it is executed, the backfill is one transaction.          *)

\* the process instances
Procs == {"A", "B"}

IdleProc ==
    [pc |-> "idle", startedEmpty |-> FALSE, created |-> None, todo |-> <<>>,
     table_names |-> {}, cache |-> <<>>, i |-> 1, error |-> None]

\* the columns _apply_schema_upgrades may add
UpgradeColumns == {UpgradeList[k] : k \in 1..Len(UpgradeList)}

\* the stores the instances race on: a new store, or an older one that
\* lacks some of the columns the upgrades add
RaceStores ==
    {EmptyDb} \cup
    UNION {Stores({}, {}, m, 1) : m \in UpTo(UpgradeColumns, MaxMissing)}

InitRace ==
    /\ backend = "sqlite"
    /\ adminApiKey = "S"
    /\ \/ fileExists = FALSE /\ db = EmptyDb
       \/ fileExists = TRUE /\ db \in RaceStores
    /\ ready = FALSE
    /\ boot = NoBoot
    /\ auth = NoAuth
    /\ reply = NoReply
    /\ proc = [p \in Procs |-> IdleProc]

\* where ensure_column i leaves the run: the next call, or the backfill
AfterColumn(i) == IF i >= Len(UpgradeList) THEN "backfill" ELSE "ensure"

\* get_or_create_db up to the inspector's get_table_names()
RaceStart(p) ==
    /\ proc[p].pc = "idle"
    /\ proc' = [proc EXCEPT ![p].pc = "create_all",
                            ![p].startedEmpty = TableNames(db) = {},
                            ![p].created =
                                WasCreated(backend = "sqlite" /\ ~fileExists,
                                           TableNames(db) # {})]
    /\ UNCHANGED <<backend, adminApiKey, fileExists, db, ready, boot, auth, reply>>

\* create_all: the existence checks, which keep the tables to create
RaceCreateAll(p) ==
    /\ proc[p].pc = "create_all"
    /\ proc' = [proc EXCEPT ![p].todo = MissingTables(db),
                            ![p].pc = IF MissingTables(db) = <<>>
                                      THEN "inspect" ELSE "create"]
    /\ fileExists' = TRUE
    /\ UNCHANGED <<backend, adminApiKey, db, ready, boot, auth, reply>>

\* create_all: one CREATE TABLE.  It raises when the table exists
RaceCreate(p) ==
    /\ proc[p].pc = "create"
    /\ LET s == CreateStmt(Head(proc[p].todo))
       IN IF Refused(db, s)
          THEN /\ proc' = [proc EXCEPT ![p].pc = "aborted",
                                       ![p].error = "table_exists"]
               /\ db' = db
          ELSE /\ db' = Exec(db, s)
               /\ proc' = [proc EXCEPT ![p].todo = Tail(@),
                                       ![p].pc = IF Len(proc[p].todo) = 1
                                                 THEN "inspect" ELSE "create"]
    /\ UNCHANGED <<backend, adminApiKey, fileExists, ready, boot, auth, reply>>

\* _apply_schema_upgrades: get_table_names(), and the project table when it
\* is missing
RaceInspect(p) ==
    /\ proc[p].pc = "inspect"
    /\ LET first == IF "project" \notin TableNames(db)
                    THEN <<CreateStmt("project")>> ELSE <<>>
       IN /\ db' = ExecN(db, first, Len(first))
          /\ proc' = [proc EXCEPT ![p].table_names = TableNames(db) \cup {"project"},
                                  ![p].cache = <<>>,
                                  ![p].i = 1,
                                  ![p].pc = "ensure"]
    /\ UNCHANGED <<backend, adminApiKey, fileExists, ready, boot, auth, reply>>

\* ensure_column up to its ALTER: the table and column checks
RaceEnsure(p) ==
    /\ proc[p].pc = "ensure"
    /\ LET i == proc[p].i
           t == UpgradeList[i][1]
           c == UpgradeList[i][2]
           cache == proc[p].cache
           cols == IF t \in DOMAIN cache THEN cache[t] ELSE GetColumns(db, t)
           filled == [x \in DOMAIN cache \cup {t} |->
                         IF x = t THEN cols ELSE cache[x]]
       IN IF t \notin proc[p].table_names
          THEN proc' = [proc EXCEPT ![p].i = i + 1, ![p].pc = AfterColumn(i)]
          ELSE IF NeedsColumn(proc[p].table_names, cols, t, c)
          THEN proc' = [proc EXCEPT ![p].cache = filled, ![p].pc = "alter"]
          ELSE proc' = [proc EXCEPT ![p].cache = filled, ![p].i = i + 1,
                                    ![p].pc = AfterColumn(i)]
    /\ UNCHANGED <<backend, adminApiKey, fileExists, db, ready, boot, auth, reply>>

\* ensure_column's ALTER TABLE ADD COLUMN.  It raises when the column
\* exists, and nothing catches what it raises
RaceAlter(p) ==
    /\ proc[p].pc = "alter"
    /\ LET i == proc[p].i
           t == UpgradeList[i][1]
           c == UpgradeList[i][2]
           s == AlterStmt(t, c)
       IN IF Refused(db, s)
          THEN /\ proc' = [proc EXCEPT ![p].pc = "aborted",
                                       ![p].error = "duplicate_column"]
               /\ db' = db
          ELSE /\ db' = Exec(db, s)
               /\ proc' = [proc EXCEPT ![p].cache[t] = @ \cup {c},
                                       ![p].i = i + 1,
                                       ![p].pc = AfterColumn(i)]
    /\ UNCHANGED <<backend, adminApiKey, fileExists, ready, boot, auth, reply>>

\* the backfill and the commit; get_or_create_db returns
RaceBackfill(p) ==
    /\ proc[p].pc = "backfill"
    /\ \E tokP \in [BackfillIds(db, "project") -> Tokens],
          tokQ \in [BackfillIds(db, "questionnaire") -> Tokens] :
          LET ss == Backfill(db, tokP, tokQ)
          IN IF FirstRefused(db, ss) # 0
             THEN /\ proc' = [proc EXCEPT ![p].pc = "aborted",
                                          ![p].error = "integrity"]
                  /\ db' = db
             ELSE /\ db' = ExecN(db, ss, Len(ss))
                  /\ proc' = [proc EXCEPT ![p].pc = "done"]
    /\ UNCHANGED <<backend, adminApiKey, fileExists, ready, boot, auth, reply>>

NextRace ==
    \E p \in Procs :
        \/ RaceStart(p)
        \/ RaceCreateAll(p)
        \/ RaceCreate(p)
        \/ RaceInspect(p)
        \/ RaceEnsure(p)
        \/ RaceAlter(p)
        \/ RaceBackfill(p)

SpecRace == InitRace /\ [][NextRace]_vars

-----------------------------------------------------------------------------
(* Properties of get_or_create_db.                                         *)

\* the DDL statements a run executed or tried
Structural(b) ==
    {k \in 1..Len(b.done) : IsDDL(b.done[k])} \cup
    {k \in 1..Len(b.raised) : IsDDL(b.raised[k])}

\* the rows of table t the backfill of run b wrote or tried to write
Written(b, t) ==
    {b.done[k].id : k \in {n \in 1..Len(b.done) :
                              b.done[n].kind = "update" /\ b.done[n].tbl = t}}
    \cup
    {b.raised[k].id : k \in {n \in 1..Len(b.raised) :
                              b.raised[n].kind = "update" /\ b.raised[n].tbl = t}}

\* C1: a get_or_create_db run that follows a run that returned, on the same
\* store, executes no CREATE TABLE and no ALTER TABLE ADD COLUMN and leaves
\* the tables and the columns of each table as the first run left them.
C1_Idempotent ==
    (boot.ran /\ boot.afterOk) =>
        /\ Structural(boot) = {}
        /\ Catalog(db) = Catalog(boot.pre)

\* C1 witness: the second of two runs in a row on a store that began as an
\* older store (it holds a foreign table) has returned.
C1_Witness ==
    /\ boot.ran /\ boot.afterOk /\ boot.ok
    /\ OtherTable \in db.tables

\* C8: get_or_create_db returns True when the store had no table (no file,
\* or no tables) and then every target table is present with its declared
\* columns; it returns False when the store held a table.
C8_FreshlyCreated ==
    (boot.ran /\ boot.ok) =>
        /\ TableNames(boot.pre) = {} =>
              /\ boot.created = TRUE
              /\ \A t \in TargetTables :
                    t \in db.tables /\ db.cols[t] = ModelColumns(t)
        /\ TableNames(boot.pre) # {} => boot.created = FALSE

\* C8 witness: a run on a store whose file exists and holds no table has
\* returned True.
C8_Witness ==
    /\ boot.ran /\ boot.ok /\ boot.preFile
    /\ TableNames(boot.pre) = {}
    /\ boot.created = TRUE

\* C2 as stated: every row present before a run is present after it with
\* every value it held (a column that is not NULL) unchanged.
C2_NoDataLoss_AsStated ==
    boot.ran =>
        /\ \A i \in DOMAIN boot.pre.project :
              /\ i \in DOMAIN db.project
              /\ db.project[i].name = boot.pre.project[i].name
              /\ boot.pre.project[i].admin_key # None
                    => db.project[i].admin_key = boot.pre.project[i].admin_key
        /\ \A i \in DOMAIN boot.pre.questionnaire :
              /\ i \in DOMAIN db.questionnaire
              /\ db.questionnaire[i].name = boot.pre.questionnaire[i].name
              /\ db.questionnaire[i].project_id = boot.pre.questionnaire[i].project_id
              /\ boot.pre.questionnaire[i].assignment_key # None
                    => db.questionnaire[i].assignment_key =
                          boot.pre.questionnaire[i].assignment_key

\* C2 amended: every row present before a run is present after it, with
\* every value it held unchanged except an admin_key or assignment_key that
\* was the empty string, which is unchanged or replaced by a non-empty token.
C2_NoDataLoss ==
    boot.ran =>
        /\ DOMAIN boot.pre.project \subseteq DOMAIN db.project
        /\ DOMAIN boot.pre.questionnaire \subseteq DOMAIN db.questionnaire
        /\ \A i \in DOMAIN boot.pre.project :
              /\ db.project[i].name = boot.pre.project[i].name
              /\ boot.pre.project[i].admin_key \notin {None, ""}
                    => db.project[i].admin_key = boot.pre.project[i].admin_key
              /\ boot.pre.project[i].admin_key = ""
                    => \/ db.project[i].admin_key = ""
                       \/ Truthy(db.project[i].admin_key)
        /\ \A i \in DOMAIN boot.pre.questionnaire :
              /\ db.questionnaire[i].name = boot.pre.questionnaire[i].name
              /\ db.questionnaire[i].project_id = boot.pre.questionnaire[i].project_id
              /\ boot.pre.questionnaire[i].assignment_key \notin {None, ""}
                    => db.questionnaire[i].assignment_key =
                          boot.pre.questionnaire[i].assignment_key
              /\ boot.pre.questionnaire[i].assignment_key = ""
                    => \/ db.questionnaire[i].assignment_key = ""
                       \/ Truthy(db.questionnaire[i].assignment_key)

\* C2 witness: a run has returned on a store with a project row that held a
\* key and a project row whose key was the empty string and is now a token.
C2_Witness ==
    /\ boot.ran /\ boot.ok
    /\ \E i, j \in DOMAIN boot.pre.project :
          /\ Truthy(boot.pre.project[i].admin_key)
          /\ boot.pre.project[j].admin_key = ""
          /\ Truthy(db.project[j].admin_key)

\* C3: in every run, a project row whose admin_key is non-empty and a
\* questionnaire row whose assignment_key is non-empty is not written by the
\* backfill, and holds the same token after the run.
C3_BackfillExclusive ==
    boot.ran =>
        /\ \A i \in DOMAIN boot.pre.project :
              Truthy(boot.pre.project[i].admin_key) =>
                  /\ i \notin Written(boot, "project")
                  /\ db.project[i].admin_key = boot.pre.project[i].admin_key
        /\ \A i \in DOMAIN boot.pre.questionnaire :
              Truthy(boot.pre.questionnaire[i].assignment_key) =>
                  /\ i \notin Written(boot, "questionnaire")
                  /\ db.questionnaire[i].assignment_key =
                        boot.pre.questionnaire[i].assignment_key

\* C3 witness: a run wrote a questionnaire row and left alone another one
\* that held a token.
C3_Witness ==
    /\ boot.ran /\ boot.ok
    /\ \E i, j \in DOMAIN boot.pre.questionnaire :
          /\ Truthy(boot.pre.questionnaire[i].assignment_key)
          /\ j \in Written(boot, "questionnaire")

\* C4: after a run that returned, every project row has a non-empty
\* admin_key and every questionnaire row a non-empty assignment_key; the rows
\* whose token was NULL or the empty string are the rows the run wrote, and
\* no other row's token changed.
C4_BackfillCoverage ==
    (boot.ran /\ boot.ok) =>
        /\ \A i \in DOMAIN db.project : Truthy(db.project[i].admin_key)
        /\ \A i \in DOMAIN db.questionnaire : Truthy(db.questionnaire[i].assignment_key)
        /\ Written(boot, "project") =
              {i \in DOMAIN boot.pre.project :
                  boot.pre.project[i].admin_key \in {None, ""}}
        /\ Written(boot, "questionnaire") =
              {i \in DOMAIN boot.pre.questionnaire :
                  boot.pre.questionnaire[i].assignment_key \in {None, ""}}
        /\ \A i \in DOMAIN boot.pre.project \ Written(boot, "project") :
              db.project[i].admin_key = boot.pre.project[i].admin_key
        /\ \A i \in DOMAIN boot.pre.questionnaire \ Written(boot, "questionnaire") :
              db.questionnaire[i].assignment_key =
                  boot.pre.questionnaire[i].assignment_key

\* C4 witness: a run has returned on a store that had the admin_key column,
\* a project row whose key was NULL and one whose key was the empty string.
C4_Witness ==
    /\ boot.ran /\ boot.ok
    /\ "admin_key" \in boot.pre.cols["project"]
    /\ \E i, j \in DOMAIN boot.pre.project :
          /\ boot.pre.project[i].admin_key = None
          /\ boot.pre.project[j].admin_key = ""

\* C5: a get_or_create_db run on an existing store that fails leaves the
\* store as it was: no table, column or token of the failed run is visible.
C5_AtomicBootstrap ==
    (boot.ran /\ ~boot.ok /\ boot.preFile) => db = boot.pre

\* the store after the first k statements of run b, had each taken effect
AfterStatements(b, k) == ExecN(b.pre, b.done, k)

\* C19: after a run that returned on an older store, every table of the
\* target schema exists and every table that existed before the run has every
\* column the model classes declare for it.
C19_MigrationComplete ==
    (boot.ran /\ boot.ok /\ TableNames(boot.pre) # {}) =>
        /\ TargetTables \subseteq db.tables
        /\ \A t \in TargetTables \cap boot.pre.tables :
              ModelColumns(t) \subseteq db.cols[t]

\* C20: every structural statement of a run is a CREATE TABLE of a table
\* that is missing or an ADD COLUMN of a column that is missing when it is
\* sent, and after the run the store has every table it had and every table
\* has every column it had.
C20_AdditiveOnly ==
    boot.ran =>
        /\ \A k \in 1..Len(boot.done) :
              LET s == boot.done[k]
                  d == AfterStatements(boot, k - 1)
              IN /\ s.kind = "create" => s.tbl \notin d.tables
                 /\ s.kind = "alter" =>
                       s.tbl \in d.tables /\ s.col \notin d.cols[s.tbl]
        /\ boot.pre.tables \subseteq db.tables
        /\ \A t \in boot.pre.tables : boot.pre.cols[t] \subseteq db.cols[t]

\* C20 witness: a run on an older store created a missing table and added a
\* missing column to a table that has other columns, and returned.
C20_Witness ==
    /\ boot.ran /\ boot.ok
    /\ \E k \in 1..Len(boot.done) :
          boot.done[k].kind = "create" /\ boot.pre.tables # {}
    /\ \E k \in 1..Len(boot.done) :
          /\ boot.done[k].kind = "alter"
          /\ Cardinality(boot.pre.cols[boot.done[k].tbl]) > 1

-----------------------------------------------------------------------------
(* Properties of admin_auth.                                               *)

\* C9: a request whose credential is absent or the empty string is answered
\* 401 and obtains no AdminContext.
C9_NoCredentialUnauthorized ==
    (auth.resp.status # 0 /\ auth.cred \in {None, ""}) =>
        /\ auth.resp.status = 401
        /\ auth.resp.ctx = NoContext

\* C9 witness: a request with an empty credential was answered 401 while a
\* project row held the empty string as its admin_key.
C9_Witness ==
    /\ auth.resp.status = 401
    /\ auth.cred = ""
    /\ \E i \in DOMAIN db.project : db.project[i].admin_key = ""

\* C10: a non-empty credential resolves to super-admin scope exactly when
\* the configured secret is non-empty and equals it, and that scope holds
\* the ids of all projects of the store at the time of the call.
C10_SuperAdminScope ==
    (auth.resp.status # 0 /\ Truthy(auth.cred)) =>
        /\ auth.resp.ctx.is_super_admin <=>
              (adminApiKey # "" /\ auth.cred = adminApiKey)
        /\ auth.resp.ctx.is_super_admin =>
              /\ auth.resp.status = 200
              /\ auth.resp.ctx.project_ids = auth.ids
        /\ adminApiKey = "" => ~auth.resp.ctx.is_super_admin

\* C10 witness: the secret resolved to super-admin scope over two projects.
C10_Witness ==
    /\ auth.resp.status = 200
    /\ auth.resp.ctx.is_super_admin
    /\ Cardinality(auth.resp.ctx.project_ids) >= 2

\* C11: a non-empty credential that is not the super-admin secret resolves
\* to a tenant-admin scope, not super-admin, whose project ids are exactly the
\* ids of the projects whose admin_key equals the credential; when no project
\* holds the credential the request is answered 401 and gets no context.
C11_TenantScope ==
    (/\ auth.resp.status # 0
     /\ Truthy(auth.cred)
     /\ ~(Truthy(adminApiKey) /\ auth.cred = adminApiKey)) =>
        LET ids == {i \in DOMAIN db.project : db.project[i].admin_key = auth.cred}
        IN IF ids = {}
           THEN auth.resp.status = 401 /\ auth.resp.ctx = NoContext
           ELSE /\ auth.resp.status = 200
                /\ auth.resp.ctx = AdminContext(auth.cred, FALSE, ids)

\* C11 witness: a project key resolved to a tenant-admin scope that leaves
\* out another project of the store.
C11_Witness ==
    /\ auth.resp.status = 200
    /\ ~auth.resp.ctx.is_super_admin
    /\ auth.resp.ctx.project_ids # {}
    /\ DOMAIN db.project \ auth.resp.ctx.project_ids # {}

\* C12: every scope check of a request passes exactly when the scope is
\* super-admin or the requested project id is a member of the scope's project
\* ids, a missing project id is refused to every tenant-admin scope, and a
\* check that does not pass ends the request with 403.
C12_ScopeCheck ==
    auth.resp.status = 200 =>
        \A k \in 1..Len(reply.checks) :
            LET c == reply.checks[k]
                scope == auth.resp.ctx
            IN /\ c.allowed <=> (scope.is_super_admin \/
                                 c.project_id \in scope.project_ids)
               /\ (~scope.is_super_admin /\ c.project_id = NoneId) => ~c.allowed
               /\ ~c.allowed => (reply.status = 403 /\ k = Len(reply.checks))

\* C12 witness: a tenant-admin scope passed the check for a project it holds
\* and was refused, with 403, for another project of the store.
C12_Witness ==
    /\ auth.resp.status = 200
    /\ ~auth.resp.ctx.is_super_admin
    /\ reply.status = 403
    /\ Len(reply.checks) = 2
    /\ reply.checks[1].allowed
    /\ reply.checks[1].project_id \in auth.resp.ctx.project_ids
    /\ ~reply.checks[2].allowed
    /\ reply.checks[2].project_id \in DOMAIN db.project \ auth.resp.ctx.project_ids

\* C13: a request to a tenant-scoped admin route made with a tenant-admin
\* credential of scope S returns no user, questionnaire, question, choice,
\* assignment or diary entry whose project is outside S, leaves every such
\* row in the store unchanged and in its project, and creates no row in and
\* moves no row into a project outside S.
C13_TenantIsolation ==
    [][(/\ reply'.op # None
        /\ auth'.resp.status = 200
        /\ ~auth'.resp.ctx.is_super_admin) =>
           LET S == auth'.resp.ctx.project_ids
               outside(d, tbl, i) == ProjectOf(d, tbl, i) \notin S
           IN /\ \A o \in reply'.returned :
                    /\ o[2] \in DOMAIN db'[o[1]]
                    /\ ~outside(db', o[1], o[2])
              /\ \A tbl \in ScopedTables :
                    /\ \A i \in DOMAIN db[tbl] :
                          outside(db, tbl, i) =>
                              /\ i \in DOMAIN db'[tbl]
                              /\ db'[tbl][i] = db[tbl][i]
                              /\ outside(db', tbl, i)
                    /\ \A i \in DOMAIN db'[tbl] :
                          outside(db', tbl, i) =>
                              /\ i \in DOMAIN db[tbl]
                              /\ db[tbl][i] = db'[tbl][i]
                              /\ outside(db, tbl, i)]_vars

\* C13 witness: a tenant-admin changed a questionnaire of its project and
\* was shown it with a question, in a store that holds a row of a project
\* outside its scope.
C13_Witness ==
    /\ reply.op = "update_questionnaire"
    /\ reply.status = 200
    /\ auth.resp.status = 200
    /\ ~auth.resp.ctx.is_super_admin
    /\ \E o \in reply.returned : o[1] = "question"
    /\ \E tbl \in ScopedTables : \E i \in DOMAIN db[tbl] :
           ProjectOf(db, tbl, i) \in DOMAIN db.project \ auth.resp.ctx.project_ids

\* C14: a create_project request whose credential resolved to a tenant-admin
\* scope is answered 403 and leaves the project table as it was.
C14_CreateProjectSuperOnly ==
    [][(/\ reply'.op = "create_project"
        /\ auth'.resp.status = 200
        /\ ~auth'.resp.ctx.is_super_admin) =>
           /\ reply'.status = 403
           /\ db'.project = db.project]_vars

\* C14 witness: create_project was refused to a tenant-admin scope that
\* holds a project.
C14_Witness ==
    /\ reply.op = "create_project"
    /\ reply.status = 403
    /\ auth.resp.status = 200
    /\ ~auth.resp.ctx.is_super_admin
    /\ auth.resp.ctx.project_ids # {}

\* C15: no two project rows hold the same non-empty admin_key.
C15_AdminKeysUnique ==
    \A i, j \in DOMAIN db.project :
        (i # j /\ Truthy(db.project[i].admin_key)) =>
            db.project[i].admin_key # db.project[j].admin_key

\* C16: no two questionnaire rows hold the same non-empty assignment_key.
C16_AssignmentKeysUnique ==
    \A i, j \in DOMAIN db.questionnaire :
        (i # j /\ Truthy(db.questionnaire[i].assignment_key)) =>
            db.questionnaire[i].assignment_key # db.questionnaire[j].assignment_key

\* C17: every token the backfill, create_project and the assignment key
\* generator drew has at least 96 bits of entropy.
C17_TokenEntropy ==
    \A nbytes \in boot.drawn \cup reply.drawn : EntropyBits(nbytes) >= 96

\* C21: an update_questionnaire request that passes admin_auth leaves the
\* key of every other questionnaire as it was; a row that holds a non-empty
\* key gets another one only when the request supplies a different non-empty
\* key that no other questionnaire holds, and then gets that key; a request
\* that passes the scope checks and supplies a different non-empty key that
\* another questionnaire holds is answered 409 and changes nothing; a key is
\* drawn only when the row has none and the request supplies none.
C21_NoSilentRegeneration ==
    [][(/\ reply'.op = "update_questionnaire"
        /\ auth'.resp.status = 200
        /\ reply'.args.qid \in DOMAIN db.questionnaire) =>
           LET qid == reply'.args.qid
               k == reply'.args.assignment_key
               q == db.questionnaire[qid]
               others == {i \in DOMAIN db.questionnaire \ {qid} :
                             db.questionnaire[i].assignment_key = k}
               differs == Truthy(k) /\ k # q.assignment_key
           IN /\ DOMAIN db'.questionnaire = DOMAIN db.questionnaire
              /\ \A i \in DOMAIN db.questionnaire \ {qid} :
                    db'.questionnaire[i] = db.questionnaire[i]
              /\ (/\ Truthy(q.assignment_key)
                  /\ db'.questionnaire[qid].assignment_key # q.assignment_key) =>
                     /\ differs
                     /\ others = {}
                     /\ db'.questionnaire[qid].assignment_key = k
              /\ (differs /\ others # {} /\ reply'.status # 403) =>
                     reply'.status = 409 /\ db' = db
              /\ reply'.drawn # {} =>
                     ~Truthy(q.assignment_key) /\ ~Truthy(k)]_vars

\* C21 witness: a questionnaire that holds a key was updated with the key
\* of another questionnaire; the answer was 409.
C21_Witness ==
    /\ reply.op = "update_questionnaire"
    /\ reply.status = 409
    /\ reply.args.qid \in DOMAIN db.questionnaire
    /\ Truthy(db.questionnaire[reply.args.qid].assignment_key)
    /\ \E i \in DOMAIN db.questionnaire \ {reply.args.qid} :
           db.questionnaire[i].assignment_key = reply.args.assignment_key

\* C22: the project a successful create_project stored holds the non-empty
\* admin_key the answer shows, and admin_auth resolves that key to a scope
\* that holds the project.
C22_CreatedKeyResolves ==
    (reply.op = "create_project" /\ reply.status = 200) =>
        LET p == reply.project[1]
            a == AdminAuth("GET", p.admin_key, db, adminApiKey)
        IN /\ p.id \in DOMAIN db.project
           /\ db.project[p.id].admin_key = p.admin_key
           /\ Truthy(p.admin_key)
           /\ a.status = 200
           /\ p.id \in a.ctx.project_ids

\* C18: the answer of admin_auth to every request is the resolution of the
\* request's credential over the project table as it is when the request
\* arrives, whatever was answered to the requests before it.
C18_NoStaleAuthorization ==
    [][auth'.resp.status # 0 =>
          LET held == {i \in DOMAIN db.project :
                          db.project[i].admin_key = auth'.cred}
              super == Truthy(adminApiKey) /\ auth'.cred = adminApiKey
          IN /\ (auth'.resp.status = 200 /\ auth'.resp.ctx.is_super_admin) =>
                    auth'.resp.ctx.project_ids = DOMAIN db.project
             /\ (auth'.resp.status = 200 /\ ~auth'.resp.ctx.is_super_admin) =>
                    auth'.resp.ctx.project_ids = held
             /\ (auth'.resp.status = 401 /\ Truthy(auth'.cred)) =>
                    held = {} /\ ~super]_vars

\* C18 witness: a key resolved to a scope that holds the second project the
\* running process created.
C18_Witness ==
    /\ auth.resp.status = 200
    /\ ~auth.resp.ctx.is_super_admin
    /\ 2 \in auth.resp.ctx.project_ids
    /\ reply.op = None

-----------------------------------------------------------------------------
(* Properties of instances that start at the same time.                    *)

\* the catalog one get_or_create_db run leaves on a new store
SequentialCatalog ==
    Catalog(GetOrCreateDb(EmptyDb, "sqlite", FALSE, 0, <<>>, <<>>).db)

\* C6: two instances that run get_or_create_db on the same empty store both
\* return, whatever the order of their existence checks and DDL statements,
\* and the tables and columns are those of one sequential run.
C6_ConcurrentBootstrap ==
    (\A p \in Procs : proc[p].startedEmpty /\ proc[p].pc \in {"done", "aborted"}) =>
        /\ \A p \in Procs : proc[p].pc = "done"
        /\ Catalog(db) = SequentialCatalog

\* C7: an instance whose ALTER TABLE ADD COLUMN fails because the column
\* already exists goes on: its bootstrap does not abort.
C7_DuplicateColumnIsSuccess ==
    \A p \in Procs : proc[p].error = "duplicate_column" => proc[p].pc # "aborted"

====
